---- MODULE Spec2Model ----
(***************************************************************************)
(* Model of the buffered-streaming playback pipeline of the Streama        *)
(* desktop client (src/streama-client.py, class MainWindow): play_video,   *)
(* the QNetworkReply callbacks append_to_buffer / on_download_finished /   *)
(* on_robust_download_finished / on_stream_error, start_playback and       *)
(* cleanup_after_playback, together with the navigation, login and         *)
(* settings handlers that call into them.                                  *)
(*                                                                         *)
(* All handlers run on the single Qt event thread, so every handler is one *)
(* atomic action.  Signals of a QNetworkReply are direct connections:      *)
(* QNetworkReply.abort() emits errorOccurred(OperationCanceledError) and   *)
(* finished() synchronously, so the connected slots run inside the         *)
(* cleanup that calls abort().  The only suspension point modelled inside  *)
(* a handler is the modal QMessageBox of on_stream_error, whose nested     *)
(* event loop still delivers network events.                               *)
(***************************************************************************)
EXTENDS Integers, Sequences, FiniteSets, TLC

\* ------------------------------------------------------------------ bounds
MaxSessions == 2      \* streaming transfers created in one run
MaxChunks   == 2      \* data-arrival events per transfer
MaxBufferMB == 1      \* largest configured buffer_size_mb explored
MaxPending  == 1      \* background workers of one kind in flight
MaxLogins   == 1      \* login attempts in one run

\* --------------------------------------------------------------- constants
BytesPerMB == 1024 * 1024
HalfMB     == 512 * 1024

\* sizes of the chunks a readyRead may deliver (readAll may return nothing)
ChunkSizes == {0, HalfMB, BytesPerMB}

\* values of settings["buffer_size_mb"]: settings.json may hold anything,
\* the dialog yields the digits typed
FileBufferSizes   == (0 - 1) .. MaxBufferMB
DialogBufferSizes == 0 .. MaxBufferMB

\* BrowserWidget.PAGE_SIZE
PAGE_SIZE == 50

\* most items the server holds of one media type, and the totals it reports
\* (nothing, or two pages)
MaxItems == 100
Totals   == {0, MaxItems}

\* most listing requests issued in one run, and most in flight at a time
MaxRequests == 4
MaxInFlight == 2

\* current_page is followed from 0 - 1 up to MaxPage
MaxPage == 3

None     == 0          \* a null reference (network_reply, player_buffer_device)
NoBytes  == 0 - 1      \* no readAll() in this handler
NoBuffer == <<0 - 1>>  \* download_buffer is None

VARIABLES
    \* MainWindow fields
    is_cleaning_up, playback_started, network_reply, download_buffer,
    player_buffer_device, buffer_target, player_widget, browser_widget,
    details_widget, view, status,
    \* menu actions
    login_enabled, logout_enabled, settings_enabled,
    \* settings dict and api client
    use_buffer, buffer_size_mb, base_url, cookies,
    \* VideoPlayerWidget: media player and subtitle overlay
    sink, parsed_subtitles,
    \* identity of the QByteArray object that download_buffer refers to, and
    \* of the one that the QBuffer player_buffer_device wraps (None: no object)
    buffer_obj, device_obj,
    \* QNetworkReply objects created so far
    replies,
    \* background workers in flight
    login_workers, config_workers, details_workers, sub_workers,
    \* modal stream-error dialog open (nested event loop), window closed
    dialog, closed,
    \* history: effects of the current session, and of the last handler,
    \* login attempts so far
    sess, ev, logins,
    \* the BrowserWidget object: its fields, its buttons, its timers and the
    \* listing workers it has started
    bw

vars == << is_cleaning_up, playback_started, network_reply, download_buffer,
           player_buffer_device, buffer_target, player_widget, browser_widget,
           details_widget, view, status, login_enabled, logout_enabled,
           settings_enabled, use_buffer, buffer_size_mb, base_url,
           cookies, sink, parsed_subtitles, buffer_obj, device_obj, replies,
           login_workers,
           config_workers, details_workers, sub_workers, dialog, closed,
           sess, ev, logins, bw >>

\* ----------------------------------------------------------------- helpers
RECURSIVE Sum(_)
Sum(s) == IF s = << >> THEN 0 ELSE Head(s) + Sum(Tail(s))

\* QByteArray.size()
Size(buf) == Sum(buf)

\* truth value of a QByteArray reference: None and the empty array are falsy
Truthy(buf) == buf # NoBuffer /\ Size(buf) > 0

NoEffects == [stops |-> 0, aborts |-> 0, closes |-> 0, releases |-> 0,
              starts |-> 0]

\* what one handler did
\*   play          play_video was called: "video" / "no_video" is whether the
\*                 media item has video files
\*   error_dialog  the QMessageBox.critical the handler showed
\*   http_sub      a SubtitleDownloader was started
\*   cleanup       cleanup_after_playback was called: it "ran", or returned
\*                 at its guard ("noop")
\*   aborted       abort() was called on a reply that was still in flight
\*   delivered     the handler is a readyRead slot: the number of bytes the
\*                 reply had ready to read (NoBytes otherwise)
\*   error_code    the handler is the errorOccurred slot called by the network
\*                 layer: the code it was called with
\*   started       start_playback set playback_started
\*   worker        the step is the end of a background task: its run()
\*                 "reported" through its result signal, or "raised"
NoEvent == [play |-> "none", error_dialog |-> "none", http_sub |-> FALSE,
            cleanup |-> "none", aborted |-> FALSE, delivered |-> NoBytes,
            error_code |-> "none", started |-> FALSE, worker |-> "none"]

\* the whole state as one record, so that handlers compose as functions
State ==
    [is_cleaning_up |-> is_cleaning_up, playback_started |-> playback_started,
     network_reply |-> network_reply, download_buffer |-> download_buffer,
     player_buffer_device |-> player_buffer_device,
     buffer_target |-> buffer_target, player_widget |-> player_widget,
     browser_widget |-> browser_widget, details_widget |-> details_widget,
     view |-> view, status |-> status, login_enabled |-> login_enabled,
     logout_enabled |-> logout_enabled, settings_enabled |-> settings_enabled,
     use_buffer |-> use_buffer, buffer_size_mb |-> buffer_size_mb,
     base_url |-> base_url, cookies |-> cookies,
     sink |-> sink, parsed_subtitles |-> parsed_subtitles,
     buffer_obj |-> buffer_obj, device_obj |-> device_obj,
     replies |-> replies, login_workers |-> login_workers,
     config_workers |-> config_workers, details_workers |-> details_workers,
     sub_workers |-> sub_workers, dialog |-> dialog, closed |-> closed,
     sess |-> sess, ev |-> ev, logins |-> logins, bw |-> bw]

\* the handler's result r becomes the next state
Commit(m) ==
    \E r \in {m} :
        /\ is_cleaning_up' = r.is_cleaning_up
        /\ playback_started' = r.playback_started
        /\ network_reply' = r.network_reply
        /\ download_buffer' = r.download_buffer
        /\ player_buffer_device' = r.player_buffer_device
        /\ buffer_target' = r.buffer_target
        /\ player_widget' = r.player_widget
        /\ browser_widget' = r.browser_widget
        /\ details_widget' = r.details_widget
        /\ view' = r.view
        /\ status' = r.status
        /\ login_enabled' = r.login_enabled
        /\ logout_enabled' = r.logout_enabled
        /\ settings_enabled' = r.settings_enabled
        /\ use_buffer' = r.use_buffer
        /\ buffer_size_mb' = r.buffer_size_mb
        /\ base_url' = r.base_url
        /\ cookies' = r.cookies
        /\ sink' = r.sink
        /\ parsed_subtitles' = r.parsed_subtitles
        /\ buffer_obj' = r.buffer_obj
        /\ device_obj' = r.device_obj
        /\ replies' = r.replies
        /\ login_workers' = r.login_workers
        /\ config_workers' = r.config_workers
        /\ details_workers' = r.details_workers
        /\ sub_workers' = r.sub_workers
        /\ dialog' = r.dialog
        /\ closed' = r.closed
        /\ sess' = r.sess
        /\ ev' = r.ev
        /\ logins' = r.logins
        /\ bw' = r.bw

\* the state a handler starts from: the history of the last handler is reset
Begin == [State EXCEPT !.ev = NoEvent]

\* ---------------------------------------- StreamaAPIClient and workers
\* what the server's answer to an API request can be: no answer (transport
\* error), an HTTP error status, a body that is not JSON, or a JSON body:
\* an object (for login: with "success" true, with an "error", or empty), an
\* array, or null
HttpErrors == {"transport_error", "http_error", "undecodable"}
LoginBodies == {"dict_success", "dict_error", "dict_empty", "list", "null"}
DetailsBodies == {"dict", "list", "null"}

\* Python values of the decoded bodies: is it a dict, is it true in a test
IsDict(data) == data \in {"dict_success", "dict_error", "dict_empty", "dict"}
IsTrue(data) == data \in {"dict_success", "dict_error", "dict", "list"}

\* _make_request: the (data, error) pair returned for an answer.  The three
\* errors are RequestException (requests' JSONDecodeError is one of them)
make_request(configured, answer) ==
    IF ~configured
    THEN [data |-> "None", error |-> "not_configured"]
    ELSE IF answer \in HttpErrors
         THEN [data |-> "None", error |-> answer]
         ELSE [data |-> IF answer = "null" THEN "None" ELSE answer,
               error |-> "None"]

\* LoginWorker.run on the pair returned by api_client.login: data.get raises
\* AttributeError when data is a list, or None without an error
LoginWorker_run(res) ==
    IF IsTrue(res.data)
    THEN IF ~IsDict(res.data)
         THEN [raised |-> TRUE, emitted |-> FALSE, success |-> FALSE]
         ELSE [raised |-> FALSE, emitted |-> TRUE,
               success |-> res.data = "dict_success"]
    ELSE IF res.error # "None" \/ IsDict(res.data)
         THEN [raised |-> FALSE, emitted |-> TRUE, success |-> FALSE]
         ELSE [raised |-> TRUE, emitted |-> FALSE, success |-> FALSE]

\* FetchDetailsWorker.run for a tvShow (two requests) or another item (one
\* request); item assignment raises TypeError on a list and on None
FetchDetailsWorker_run(tv, is_episode, res1, res2) ==
    IF tv
    THEN IF res1.error # "None"
         THEN [raised |-> FALSE, emitted |-> TRUE, error |-> TRUE]
         ELSE IF res2.error # "None"
         THEN [raised |-> FALSE, emitted |-> TRUE, error |-> TRUE]
         ELSE IF ~IsDict(res1.data)
         THEN [raised |-> TRUE, emitted |-> FALSE, error |-> FALSE]
         ELSE [raised |-> FALSE, emitted |-> TRUE, error |-> FALSE]
    ELSE IF IsTrue(res1.data) /\ is_episode /\ ~IsDict(res1.data)
         THEN [raised |-> TRUE, emitted |-> FALSE, error |-> FALSE]
         ELSE [raised |-> FALSE, emitted |-> TRUE,
               error |-> res1.error # "None"]

\* the requests a details worker makes: <<tvShow, is_episode, answer to the
\* first request, answer to the second>>; an item that is no tvShow makes
\* one request, and a tvShow is no episode
DetailsRuns ==
    LET answers == HttpErrors \cup DetailsBodies
    IN  {<<TRUE, FALSE, a1, a2>> : a1 \in answers, a2 \in answers}
          \cup {<<FALSE, e, a1, a1>> : e \in BOOLEAN, a1 \in answers}

\* ---------------------------------------------------- VideoPlayerWidget
play_from_device(m, device) ==
    [m EXCEPT !.sink = [source |-> device, playing |-> TRUE]]

stop_playback(m) ==
    [m EXCEPT !.sink = [source |-> None, playing |-> FALSE]]

clear_subtitles(m) == [m EXCEPT !.parsed_subtitles = "none"]

\* ------------------------------------------------- MainWindow: streaming
\* faulty variant: the QBuffer is given a copy of the bytes received so far
start_playback_snapshot(m, t) ==
    IF m.playback_started THEN m
    ELSE LET m1 == [m EXCEPT !.playback_started = TRUE,
                             !.status = "starting",
                             !.player_buffer_device = t,
                             !.device_obj = 3 - m.buffer_obj,
                             !.ev.started = TRUE,
                             !.sess.starts = @ + 1]
             m2 == play_from_device(m1, t)
         IN  [m2 EXCEPT !.view = "player"]

\* QBuffer(self.download_buffer) wraps the QByteArray object itself
start_playback(m, t) ==
    IF m.playback_started THEN m
    ELSE LET m1 == [m EXCEPT !.playback_started = TRUE,
                             !.status = "starting",
                             !.player_buffer_device = t,
                             !.device_obj = m.buffer_obj,
                             !.ev.started = TRUE,
                             !.sess.starts = @ + 1]
             m2 == play_from_device(m1, t)
         IN  [m2 EXCEPT !.view = "player"]

\* faulty variants of buffer_ready: a strict comparison, no test of the mode, no
\* test of the size, no test that the buffer holds a byte
buffer_ready_strict(m) ==
    /\ m.use_buffer
    /\ ~m.playback_started
    /\ Truthy(m.download_buffer)
    /\ Size(m.download_buffer) > m.buffer_target

buffer_ready_any_mode(m) ==
    /\ ~m.playback_started
    /\ Truthy(m.download_buffer)
    /\ Size(m.download_buffer) >= m.buffer_target

buffer_ready_first_byte(m) ==
    /\ m.use_buffer
    /\ ~m.playback_started
    /\ Truthy(m.download_buffer)

buffer_ready_empty_too(m) ==
    /\ m.use_buffer
    /\ ~m.playback_started
    /\ m.download_buffer # NoBuffer
    /\ Size(m.download_buffer) >= m.buffer_target

\* the condition under which append_to_buffer starts playback
buffer_ready(m) ==
    /\ m.use_buffer
    /\ ~m.playback_started
    /\ Truthy(m.download_buffer)
    /\ Size(m.download_buffer) >= m.buffer_target

\* faulty variant: the chunk is put in front of the bytes received before
append_to_buffer_prepend(m, t, c) ==
    LET got == IF m.network_reply = t THEN c ELSE 0
        m1  == IF m.network_reply # None /\ m.download_buffer # NoBuffer
               THEN [m EXCEPT !.download_buffer = <<got>> \o @]
               ELSE m
    IN  IF buffer_ready(m1) THEN start_playback(m1, t) ELSE m1

\* readyRead of reply t with c bytes pending; readAll() reads the reply that
\* self.network_reply refers to
append_to_buffer(m, t, c) ==
    LET got == IF m.network_reply = t THEN c ELSE 0
        m1  == IF m.network_reply # None /\ m.download_buffer # NoBuffer
               THEN [m EXCEPT !.download_buffer = Append(@, got)]
               ELSE m
    IN  IF buffer_ready(m1) THEN start_playback(m1, t) ELSE m1

on_download_progress(m) ==
    IF ~m.playback_started THEN [m EXCEPT !.status = "buffering"] ELSE m

on_full_download_progress(m) == [m EXCEPT !.status = "downloading"]

\* faulty variant: a transfer that completes under the threshold is not played
on_download_finished_needs_target(m, t) ==
    IF /\ ~m.playback_started /\ Truthy(m.download_buffer)
       /\ Size(m.download_buffer) >= m.buffer_target
    THEN start_playback(m, t)
    ELSE m

on_download_finished(m, t) ==
    IF ~m.playback_started /\ Truthy(m.download_buffer)
    THEN start_playback(m, t)
    ELSE m

\* faulty variant: a transfer that delivered nothing is not played
on_robust_download_finished_nonempty(m, t) ==
    IF Truthy(m.download_buffer) THEN start_playback(m, t) ELSE m

on_robust_download_finished(m, t) == start_playback(m, t)

\* the slot connected to reply t's finished signal by play_video
finished_slot(m, t) ==
    IF m.replies[t].conn = "prebuffer"
    THEN on_download_finished(m, t)
    ELSE on_robust_download_finished(m, t)

\* QNetworkReply.abort(): nothing on a finished or aborted reply; otherwise
\* errorOccurred(OperationCanceledError) and finished() are emitted before
\* abort() returns
RECURSIVE on_stream_error(_, _)

abort(m, t) ==
    IF m.replies[t].state \in {"finished", "aborted"} THEN m
    ELSE LET m0 == [m EXCEPT !.ev.aborted = TRUE]
             m1 == on_stream_error(m0, "OperationCanceledError")
             m2 == finished_slot(m1, t)
         IN  [m2 EXCEPT !.replies[t].state = "aborted"]

\* the release steps of cleanup_after_playback, after its guard
release_session(m) ==
         LET m1 == [m EXCEPT !.is_cleaning_up = TRUE, !.ev.cleanup = "ran"]
             m2 == IF m1.player_widget THEN clear_subtitles(m1) ELSE m1
             m3 == IF m2.playback_started /\ m2.player_widget
                   THEN [stop_playback(m2) EXCEPT !.sess.stops = @ + 1]
                   ELSE m2
             reply == m3.network_reply
             m4 == IF reply # None
                   THEN abort([m3 EXCEPT !.network_reply = None,
                                         !.sess.aborts = @ + 1], reply)
                   ELSE m3
             m5 == IF m4.player_buffer_device # None
                   THEN [m4 EXCEPT !.player_buffer_device = None,
                                   !.device_obj = None,
                                   !.sess.closes = @ + 1]
                   ELSE m4
         IN  [m5 EXCEPT !.download_buffer = NoBuffer,
                        !.buffer_obj = None,
                        !.sess.releases = @ + 1,
                        !.playback_started = FALSE]

\* faulty variant: no is_cleaning_up guard
cleanup_unguarded(m) == release_session(m)

cleanup_after_playback(m) ==
    IF m.is_cleaning_up
    THEN [m EXCEPT !.ev.cleanup = IF @ = "none" THEN "noop" ELSE @]
    ELSE release_session(m)

\* the calls cleanup_after_playback makes on Qt objects, in their order
CleanupSteps == {"clear_subtitles", "stop_playback", "abort", "close"}

\* cleanup_after_playback reaches the call `step`
StepRuns(m, step) ==
    /\ ~m.is_cleaning_up
    /\ step = "clear_subtitles" => m.player_widget
    /\ step = "stop_playback" => m.playback_started /\ m.player_widget
    /\ step = "abort" => m.network_reply # None
    /\ step = "close" => m.player_buffer_device # None

\* cleanup_after_playback when the call `step` raises (a Qt call on a wrapper
\* whose C++ object is gone raises RuntimeError): no statement of the function
\* is inside a try block, so the statements after the call are not executed
\* and the exception leaves the function
cleanup_after_playback_raising(m, step) ==
    LET m1 == [m EXCEPT !.is_cleaning_up = TRUE, !.ev.cleanup = "raised"]
        m2 == IF m1.player_widget THEN clear_subtitles(m1) ELSE m1
        m3 == IF m2.playback_started /\ m2.player_widget
              THEN [stop_playback(m2) EXCEPT !.sess.stops = @ + 1]
              ELSE m2
        reply == m3.network_reply
        m4 == IF reply # None
              THEN abort([m3 EXCEPT !.network_reply = None,
                                    !.sess.aborts = @ + 1], reply)
              ELSE m3
    IN  IF step = "clear_subtitles" THEN m1
        ELSE IF step = "stop_playback" THEN m2
        ELSE IF step = "abort" THEN [m3 EXCEPT !.network_reply = None]
        ELSE m4

\* faulty variant: every error is reported, the one caused by abort() included
on_stream_error_unguarded(m, error_code) ==
    cleanup_after_playback([m EXCEPT !.dialog = "stream_error"])

\* faulty variant: a transport error is not reported, only cleaned up
on_stream_error_silent(m, error_code) ==
    IF m.is_cleaning_up \/ m.network_reply = None THEN m
    ELSE cleanup_after_playback(m)

\* errorOccurred(error_code) of a reply.  QMessageBox.critical blocks in a
\* nested event loop: the handler stops there with the dialog open, and
\* DismissStreamError runs the cleanup call that follows it
on_stream_error(m, error_code) ==
    IF m.is_cleaning_up \/ m.network_reply = None THEN m
    ELSE IF error_code # "OperationCanceledError"
         THEN [m EXCEPT !.dialog = "stream_error",
                        !.ev.error_dialog = "stream_error"]
         ELSE cleanup_after_playback(m)

\* faulty variant: the cookie header is not checked
precondition_error_no_cookie_check(m, has_video) ==
    IF ~has_video THEN "no_video"
    ELSE IF ~m.base_url THEN "no_url"
    ELSE "none"

\* the precondition checks of play_video, in their order: the error reported
precondition_error(m, has_video) ==
    IF ~has_video THEN "no_video"
    ELSE IF ~m.base_url THEN "no_url"
    ELSE IF ~m.cookies THEN "no_cookie"
    ELSE "none"

\* QByteArray(): a new object, distinct from every object still referenced
NewObject(m) == IF m.device_obj = 1 THEN 2 ELSE 1

\* play_video after its call of cleanup_after_playback
play_video_start(m1, has_video, sub_selected) ==
    LET m2 == clear_subtitles(
                [m1 EXCEPT !.is_cleaning_up = FALSE,
                           !.playback_started = FALSE,
                           !.download_buffer = << >>,
                           !.buffer_obj = NewObject(m1),
                           !.sess = NoEffects,
                           !.sub_workers.stale = @ + m1.sub_workers.cur,
                           !.sub_workers.cur = 0])
        \* get_stream_url(sub_id, 'srt') yields a URL iff base_url is set
        m3 == IF sub_selected /\ m2.base_url
              THEN [m2 EXCEPT !.sub_workers.cur = 1, !.ev.http_sub = TRUE]
              ELSE m2
        failed == precondition_error(m3, has_video)
    IN  IF failed # "none"
        THEN [m3 EXCEPT !.ev.error_dialog = failed]
        ELSE LET t  == Len(m3.replies) + 1
                 m4 == [m3 EXCEPT
                          !.replies = Append(@,
                              [state |-> "inflight",
                               conn |-> IF m3.use_buffer THEN "prebuffer"
                                                         ELSE "full"]),
                          !.network_reply = t]
             IN  IF m4.use_buffer
                 THEN [m4 EXCEPT !.buffer_target =
                                     m4.buffer_size_mb * BytesPerMB,
                                 !.status = "buffering_0"]
                 ELSE [m4 EXCEPT !.buffer_target = 0,
                                 !.status = "downloading_0"]

\* faulty variant: the previous session is not cleaned up
play_video_no_cleanup(m, has_video, sub_selected) ==
    play_video_start([m EXCEPT !.player_widget = TRUE], has_video,
                     sub_selected)

\* faulty variant: is_cleaning_up is not reset
play_video_keeps_flag(m, has_video, sub_selected) ==
    LET m0 == [m EXCEPT !.player_widget = TRUE,
                        !.ev.play = IF has_video THEN "video"
                                                 ELSE "no_video"]
        m1 == cleanup_after_playback(m0)
    IN  [play_video_start(m1, has_video, sub_selected)
           EXCEPT !.is_cleaning_up = m1.is_cleaning_up]

play_video(m, has_video, sub_selected) ==
    LET m0 == [m EXCEPT !.player_widget = TRUE,
                        !.ev.play = IF has_video THEN "video"
                                                 ELSE "no_video"]
    IN  play_video_start(cleanup_after_playback(m0), has_video, sub_selected)

\* -------------------------------------------------------- BrowserWidget
\* BrowserWidget.__init__ and initUI: the pagination bar is hidden, the
\* buttons are enabled as QPushButton creates them; search_input is the
\* length of the text typed
BrowserWidget_init ==
    [current_page |-> 1, total_items |-> 0, current_list_type |-> "None",
     poster_grid |-> {}, pagination_bar |-> FALSE,
     prev_page_button |-> TRUE, next_page_button |-> TRUE,
     search_input |-> 0, search_timer |-> FALSE, initial_timer |-> FALSE,
     requests |-> << >>, issued |-> 0]

\* FetchPageWorker's offset argument, as go_to_page computes it
Offset(page_num) == (page_num - 1) * PAGE_SIZE

\* update_pagination_controls: total_pages
total_pages(total_items) == (total_items + PAGE_SIZE - 1) \div PAGE_SIZE

\* active_worker_threads.append(worker); threadpool.start(worker).  A listing
\* worker is a FetchContinueWatchingWorker, a FetchPageWorker (with its
\* media_type and the page its offset was computed from) or a SearchWorker;
\* id numbers the requests in the order they were issued
start_worker(m, kind, media_type, page_num, is_initial_load) ==
    LET worker == [id |-> m.bw.issued + 1, kind |-> kind,
                   media_type |-> media_type, page_num |-> page_num,
                   is_initial_load |-> is_initial_load]
    IN  [m EXCEPT !.bw.requests = Append(@, worker),
                  !.bw.issued = @ + 1]

clear_grid(m) == [m EXCEPT !.bw.poster_grid = {}]

load_continue_watching(m, is_initial_load) ==
    LET m1 == clear_grid(
                [m EXCEPT !.bw.current_list_type = "continue_watching"])
        m2 == [m1 EXCEPT !.bw.pagination_bar = FALSE]
    IN  start_worker(m2, "continue_watching", "none", 0, is_initial_load)

load_initial_content(m) ==
    load_continue_watching([m EXCEPT !.bw.initial_timer = FALSE], TRUE)

\* with current_list_type still None, media_type.replace raises after the
\* page was stored and the grid cleared: no worker is started
go_to_page(m, media_type, page_num) ==
    LET m1 == clear_grid([m EXCEPT !.bw.current_page = page_num])
    IN  IF media_type = "None" THEN m1
        ELSE start_worker(m1, "page", media_type, page_num, FALSE)

load_all_movies(m) ==
    go_to_page([m EXCEPT !.bw.current_page = 0, !.bw.total_items = 0],
               "movies", 1)

load_all_shows(m) ==
    go_to_page([m EXCEPT !.bw.current_page = 0, !.bw.total_items = 0],
               "shows", 1)

load_all_generic(m) ==
    go_to_page([m EXCEPT !.bw.current_page = 0, !.bw.total_items = 0],
               "generic", 1)

\* textChanged(text), text given by its length
handle_search_text_changed(m, text) ==
    LET m1 == [m EXCEPT !.bw.search_input = text, !.bw.search_timer = FALSE]
    IN  IF text >= 2 THEN [m1 EXCEPT !.bw.search_timer = TRUE]
        ELSE IF text = 0 THEN load_continue_watching(m1, FALSE)
        ELSE m1

\* _perform_search, the slot of search_timer (single shot)
perform_search(m) ==
    LET m0 == [m EXCEPT !.bw.search_timer = FALSE]
    IN  IF m0.bw.search_input < 2 THEN m0
        ELSE LET m1 == clear_grid(
                         [m0 EXCEPT !.bw.current_list_type = "search"])
                 m2 == [m1 EXCEPT !.bw.pagination_bar = FALSE]
             IN  start_worker(m2, "search", "none", 0, FALSE)

\* the posters of the list answered to request id are added to the grid
add_items_to_grid(m, id, nonempty) ==
    IF nonempty THEN [m EXCEPT !.bw.poster_grid = @ \cup {id}] ELSE m

update_pagination_controls(m) ==
    [m EXCEPT !.bw.pagination_bar = TRUE,
              !.bw.prev_page_button = m.bw.current_page > 1,
              !.bw.next_page_button =
                  m.bw.current_page < total_pages(m.bw.total_items)]

on_fetch_error(m) == [m EXCEPT !.ev.error_dialog = "fetch"]

\* the slot of continue_watching_finished for worker w: error is whether the
\* request failed, nonempty whether the list answered has items
populate_grid_from_list(m, w, error, nonempty) ==
    IF error THEN on_fetch_error(m)
    ELSE LET m1 == add_items_to_grid(m, w.id, nonempty)
         IN  IF ~nonempty /\ w.is_initial_load
             THEN load_all_movies(m1) ELSE m1

\* the slot of page_finished for worker w, answered with data["total"] =
\* total and a data["list"] that has items or not
populate_page(m, w, error, total, nonempty) ==
    IF error THEN on_fetch_error(m)
    ELSE LET m1 == [m EXCEPT !.bw.total_items = total]
         IN  IF ~nonempty /\ m1.bw.current_page = 1
             THEN IF w.media_type = "movies" THEN load_all_shows(m1)
                  ELSE IF w.media_type = "shows" THEN load_all_generic(m1)
                  ELSE m1
             ELSE update_pagination_controls(
                    add_items_to_grid(m1, w.id, nonempty))

\* the slot of search_finished for worker w
populate_from_search(m, w, error, nonempty) ==
    IF error THEN on_fetch_error(m)
    ELSE add_items_to_grid(m, w.id, nonempty)

\* ---------------------------------------------------------------- Init
Init ==
    /\ is_cleaning_up = FALSE
    /\ playback_started = FALSE
    /\ network_reply = None
    /\ download_buffer = NoBuffer
    /\ player_buffer_device = None
    /\ buffer_target = 0
    /\ player_widget = FALSE
    /\ browser_widget = FALSE
    /\ details_widget = FALSE
    /\ view = "welcome"
    /\ status = ""
    /\ login_enabled = TRUE
    /\ logout_enabled = FALSE
    /\ settings_enabled = TRUE
    /\ use_buffer \in BOOLEAN
    /\ buffer_size_mb \in FileBufferSizes
    /\ base_url = FALSE
    /\ cookies = FALSE
    /\ sink = [source |-> None, playing |-> FALSE]
    /\ parsed_subtitles = "none"
    /\ buffer_obj = None
    /\ device_obj = None
    /\ replies = << >>
    /\ login_workers = 0
    /\ config_workers = 0
    /\ details_workers = 0
    /\ sub_workers = [cur |-> 0, stale |-> 0]
    /\ dialog = "none"
    /\ closed = FALSE
    /\ sess = NoEffects
    /\ ev = NoEvent
    /\ logins = 0
    /\ bw = BrowserWidget_init


\* ------------------------------------------------ MainWindow: navigation
update_ui_state(m, logged_in) ==
    [m EXCEPT !.login_enabled = ~logged_in,
              !.logout_enabled = logged_in,
              !.settings_enabled = ~logged_in]

start_browser_session(m) ==
    [m EXCEPT !.browser_widget = TRUE, !.details_widget = TRUE,
              !.view = "browser", !.bw.initial_timer = TRUE]

\* with server and username configured (the settings dialog asks for them)
handle_login_click(m) ==
    [m EXCEPT !.base_url = TRUE, !.login_enabled = FALSE,
              !.settings_enabled = FALSE, !.login_workers = @ + 1,
              !.logins = @ + 1]

on_login_finished(m, success, got_cookie) ==
    LET m1 == [m EXCEPT !.login_workers = @ - 1,
                        !.cookies = @ \/ got_cookie]
    IN  IF success
        THEN [update_ui_state(m1, TRUE) EXCEPT !.config_workers = @ + 1]
        ELSE [update_ui_state(m1, FALSE) EXCEPT !.ev.error_dialog = "login"]

on_config_loaded(m) ==
    start_browser_session([m EXCEPT !.config_workers = @ - 1])

show_details(m) ==
    [m EXCEPT !.details_workers = @ + 1]

on_details_loaded(m, error) ==
    LET m1 == [m EXCEPT !.details_workers = @ - 1]
    IN  IF error
        THEN [m1 EXCEPT !.ev.error_dialog = "details",
                        !.view = IF m1.browser_widget THEN "browser" ELSE @]
        ELSE [m1 EXCEPT !.view = "details"]

on_subtitle_loaded(m, which, error) ==
    IF error THEN m
    ELSE IF m.player_widget
         THEN [m EXCEPT !.parsed_subtitles = which]
         ELSE m

go_from_player_to_details(m) ==
    LET m1 == cleanup_after_playback(m)
    IN  IF m1.details_widget THEN [m1 EXCEPT !.view = "details"] ELSE m1

\* VideoPlayerWidget.handle_back_button: stops the sink, then emits go_back
handle_back_button(m) == go_from_player_to_details(stop_playback(m))

\* faulty variant: the view is switched without cleaning the session up
show_browser_no_cleanup(m) ==
    IF m.browser_widget THEN [m EXCEPT !.view = "browser"] ELSE m

show_browser(m) ==
    LET m1 == cleanup_after_playback(m)
    IN  IF m1.browser_widget THEN [m1 EXCEPT !.view = "browser"] ELSE m1

handle_logout_click(m) ==
    LET m1 == cleanup_after_playback(m)
        m2 == IF m1.browser_widget THEN clear_grid(m1) ELSE m1
        m3 == [m2 EXCEPT !.view = "welcome"]
    IN  update_ui_state(m3, FALSE)

\* faulty variant: the close is accepted without clearing and waiting for the
\* thread pool
closeEvent_no_wait(m) ==
    [cleanup_after_playback(m) EXCEPT !.closed = TRUE]

\* closeEvent: cleanup, threadpool.clear(), threadpool.waitForDone(), accept
closeEvent(m) ==
    LET m1 == cleanup_after_playback(m)
    IN  [m1 EXCEPT !.login_workers = 0, !.config_workers = 0,
                   !.details_workers = 0,
                   !.sub_workers = [cur |-> 0, stale |-> 0],
                   !.bw.requests = << >>,
                   !.closed = TRUE]

\* ---------------------------------------------------------------- actions
\* the user can act on the window: it is open and no modal dialog blocks it
UserCanAct == ~closed /\ dialog = "none"

\* File > Settings..., saved with new values (cancel leaves the state as is).
\* Edits are followed until the last login attempt of the run has been made;
\* from then on the settings stay as they are.
OpenSettings ==
    /\ UserCanAct /\ settings_enabled
    /\ logins < MaxLogins
    /\ \E ub \in BOOLEAN, mb \in DialogBufferSizes :
         Commit([Begin EXCEPT
                   !.use_buffer = ub, !.buffer_size_mb = mb])

\* File > Login
LoginClick ==
    /\ UserCanAct /\ login_enabled
    /\ login_workers < MaxPending /\ logins < MaxLogins
    /\ Commit(handle_login_click(Begin))

LoginFinished ==
    /\ ~closed /\ login_workers > 0
    /\ config_workers < MaxPending
    /\ \E success \in BOOLEAN, got_cookie \in BOOLEAN :
         Commit(on_login_finished(Begin,
                                  success, got_cookie))

ConfigLoaded ==
    /\ ~closed /\ config_workers > 0
    /\ Commit(on_config_loaded(Begin))

\* a poster clicked in the browser, or an episode in the details view
ShowDetails ==
    /\ UserCanAct /\ view \in {"browser", "details"}
    /\ details_workers < MaxPending
    /\ Commit(show_details(Begin))

DetailsLoaded ==
    /\ ~closed /\ details_workers > 0
    /\ \E error \in BOOLEAN :
         Commit(on_details_loaded(Begin, error))

\* the Play button of the details view
PlayClick ==
    /\ UserCanAct /\ view = "details"
    /\ Len(replies) < MaxSessions
    /\ \E has_video \in BOOLEAN, sub_selected \in BOOLEAN :
         /\ sub_selected => sub_workers.stale + sub_workers.cur < MaxPending
         /\ Commit(play_video(Begin, has_video, sub_selected))

SubtitleLoaded ==
    /\ ~closed
    /\ \E which \in {"cur", "stale"}, error \in BOOLEAN :
         /\ sub_workers[which] > 0
         /\ Commit(on_subtitle_loaded(
                     [Begin EXCEPT
                        !.sub_workers[which] = @ - 1], which, error))

PlayerBack ==
    /\ UserCanAct /\ view = "player"
    /\ Commit(handle_back_button(Begin))

DetailsBack ==
    /\ UserCanAct /\ view = "details"
    /\ Commit(show_browser(Begin))

LogoutClick ==
    /\ UserCanAct /\ logout_enabled
    /\ Commit(handle_logout_click(Begin))

CloseWindow ==
    /\ UserCanAct
    /\ Commit(closeEvent(Begin))

\* readyRead of reply t: c more bytes can be read
ReadyRead ==
    /\ ~closed
    /\ \E t \in 1 .. Len(replies), c \in ChunkSizes :
         /\ replies[t].state = "inflight"
         /\ download_buffer # NoBuffer => Len(download_buffer) < MaxChunks
         /\ Commit(append_to_buffer(
                     [Begin EXCEPT !.ev.delivered = c], t, c))

\* downloadProgress of reply t
DownloadProgress ==
    /\ ~closed
    /\ \E t \in 1 .. Len(replies) :
         /\ replies[t].state = "inflight"
         /\ IF replies[t].conn = "prebuffer"
            THEN Commit(on_download_progress(Begin))
            ELSE Commit(on_full_download_progress(
                          Begin))

\* finished of reply t: the transfer completed, or ended after its error
Finished ==
    /\ ~closed
    /\ \E t \in 1 .. Len(replies) :
         /\ replies[t].state \in {"inflight", "errored"}
         /\ Commit(finished_slot(
                     [Begin EXCEPT
                        !.replies[t].state = "finished"], t))

\* errorOccurred of reply t with a transport error
ErrorOccurred ==
    /\ ~closed
    /\ \E t \in 1 .. Len(replies) :
         /\ replies[t].state = "inflight"
         /\ Commit(on_stream_error(
                     [Begin EXCEPT
                        !.replies[t].state = "errored",
                        !.ev.error_code = "NetworkError"],
                     "NetworkError"))

\* the user closes the stream-error dialog: on_stream_error goes on
DismissStreamError ==
    /\ ~closed /\ dialog = "stream_error"
    /\ Commit(cleanup_after_playback(
                [Begin EXCEPT
                   !.dialog = "none",
                   !.ev.error_dialog = "stream_error"]))

Next ==
    \/ OpenSettings
    \/ LoginClick
    \/ LoginFinished
    \/ ConfigLoaded
    \/ ShowDetails
    \/ DetailsLoaded
    \/ PlayClick
    \/ SubtitleLoaded
    \/ PlayerBack
    \/ DetailsBack
    \/ LogoutClick
    \/ CloseWindow
    \/ ReadyRead
    \/ DownloadProgress
    \/ Finished
    \/ ErrorOccurred
    \/ DismissStreamError

Spec == Init /\ [][Next]_vars

\* ------------------------------------------- background tasks in detail
\* The handlers on_login_finished and on_details_loaded with the worker that
\* calls them: the arguments of the result signal are computed by run() from
\* the server's answer, and run() may end without emitting.
\* a LoginWorker ends: its run() has emitted login_finished, or has raised;
\* the server may have set a session cookie either way
LoginWorkerEnds ==
    /\ ~closed /\ login_workers > 0
    /\ config_workers < MaxPending
    /\ \E answer \in HttpErrors \cup LoginBodies, got_cookie \in BOOLEAN :
         LET run == LoginWorker_run(make_request(base_url, answer))
         IN  IF run.emitted
             THEN Commit(on_login_finished(
                           [Begin EXCEPT !.ev.worker = "reported"],
                           run.success, got_cookie))
             ELSE Commit([Begin EXCEPT
                            !.login_workers = @ - 1,
                            !.cookies = @ \/ got_cookie,
                            !.ev.worker = "raised"])

\* a FetchDetailsWorker ends: its run() has emitted details_finished, or has
\* raised
DetailsWorkerEnds ==
    /\ ~closed /\ details_workers > 0
    /\ \E r \in DetailsRuns :
         LET run == FetchDetailsWorker_run(
                      r[1], r[2], make_request(base_url, r[3]),
                      make_request(base_url, r[4]))
         IN  IF run.emitted
             THEN Commit(on_details_loaded(
                           [Begin EXCEPT !.ev.worker = "reported"],
                           run.error))
             ELSE Commit([Begin EXCEPT
                            !.details_workers = @ - 1,
                            !.ev.worker = "raised"])

\* login, browsing and details without the streaming session
NextWorkers ==
    \/ OpenSettings
    \/ LoginClick
    \/ LoginWorkerEnds
    \/ ConfigLoaded
    \/ ShowDetails
    \/ DetailsWorkerEnds
    \/ DetailsBack
    \/ LogoutClick
    \/ CloseWindow

SpecWorkers == Init /\ [][NextWorkers]_vars

\* ------------------------------------------------ the catalog browser
\* the user can act on the browser: it is the visible view
BrowserShown == UserCanAct /\ browser_widget /\ view = "browser"

\* the handler's result is committed while the run stays within its bounds
Step(m) ==
    \E r \in {m} :
        /\ r.bw.issued <= MaxRequests
        /\ Len(r.bw.requests) <= MaxInFlight
        /\ r.bw.current_page \in (0 - 1) .. MaxPage
        /\ Commit(r)

\* the worker at position i has ended and its signal is delivered
Remove(m, i) ==
    [m EXCEPT !.bw.requests =
                  SubSeq(@, 1, i - 1) \o SubSeq(@, i + 1, Len(@))]

\* what the server answers to a page request: the list has items when the
\* offset is below the total (a negative offset is read as 0)
PageHasItems(w, total) == Offset(w.page_num) < total

\* QTimer.singleShot(50, load_initial_content) fires
InitialLoad ==
    /\ ~closed /\ bw.initial_timer
    /\ Step(load_initial_content(Begin))

\* Show All Movies / Show All TV Shows / Show Generic Videos
ShowAllClick ==
    /\ BrowserShown
    /\ \/ Step(load_all_movies(Begin))
       \/ Step(load_all_shows(Begin))
       \/ Step(load_all_generic(Begin))

PrevClick ==
    /\ BrowserShown /\ bw.pagination_bar /\ bw.prev_page_button
    /\ Step(go_to_page(Begin, bw.current_list_type, bw.current_page - 1))

NextClick ==
    /\ BrowserShown /\ bw.pagination_bar /\ bw.next_page_button
    /\ Step(go_to_page(Begin, bw.current_list_type, bw.current_page + 1))

BackToContinueClick ==
    /\ BrowserShown /\ bw.pagination_bar
    /\ Step(load_continue_watching(Begin, FALSE))

SearchTextChanged ==
    /\ BrowserShown
    /\ \E text \in 0 .. 2 :
         /\ text # bw.search_input
         /\ Step(handle_search_text_changed(Begin, text))

SearchTimeout ==
    /\ ~closed /\ bw.search_timer
    /\ Step(perform_search(Begin))

ContinueWatchingFinished ==
    /\ ~closed
    /\ \E i \in 1 .. Len(bw.requests), error \in BOOLEAN,
          nonempty \in BOOLEAN :
         /\ bw.requests[i].kind = "continue_watching"
         /\ error => ~nonempty
         /\ Step(populate_grid_from_list(Remove(Begin, i), bw.requests[i],
                                         error, nonempty))

PageFinished ==
    /\ ~closed
    /\ \E i \in 1 .. Len(bw.requests), error \in BOOLEAN, total \in Totals :
         /\ bw.requests[i].kind = "page"
         /\ error => total = 0
         /\ Step(populate_page(Remove(Begin, i), bw.requests[i], error,
                               total, PageHasItems(bw.requests[i], total)))

SearchFinished ==
    /\ ~closed
    /\ \E i \in 1 .. Len(bw.requests), error \in BOOLEAN,
          nonempty \in BOOLEAN :
         /\ bw.requests[i].kind = "search"
         /\ error => ~nonempty
         /\ Step(populate_from_search(Remove(Begin, i), bw.requests[i],
                                      error, nonempty))

\* login and the catalog browser, without details and streaming
NextBrowser ==
    \/ LoginClick
    \/ LoginFinished
    \/ ConfigLoaded
    \/ InitialLoad
    \/ ShowAllClick
    \/ PrevClick
    \/ NextClick
    \/ BackToContinueClick
    \/ SearchTextChanged
    \/ SearchTimeout
    \/ ContinueWatchingFinished
    \/ PageFinished
    \/ SearchFinished
    \/ LogoutClick
    \/ CloseWindow

\* the streaming settings, which no handler of these actions reads, are
\* taken as load_settings defaults them: pre-buffering on, a positive size
InitBrowser == Init /\ use_buffer /\ buffer_size_mb = MaxBufferMB

SpecBrowser == InitBrowser /\ [][NextBrowser]_vars

\* ------------------------------------------------ failing cleanup steps
\* behaviours are followed up to the first call that raises
NoFaultYet == ev.cleanup # "raised"

\* File > Logout when a call made by cleanup_after_playback raises: the
\* exception leaves handle_logout_click at its first statement
CleanupRaises ==
    /\ NoFaultYet
    /\ UserCanAct /\ logout_enabled
    /\ \E step \in CleanupSteps :
         /\ StepRuns(Begin, step)
         /\ Commit(cleanup_after_playback_raising(Begin, step))

\* the events of Next with the settings left as they were loaded, up to the
\* first call that raises
NextFault ==
    \/ NoFaultYet /\ LoginClick
    \/ NoFaultYet /\ LoginFinished
    \/ NoFaultYet /\ ConfigLoaded
    \/ NoFaultYet /\ ShowDetails
    \/ NoFaultYet /\ DetailsLoaded
    \/ NoFaultYet /\ PlayClick
    \/ NoFaultYet /\ SubtitleLoaded
    \/ NoFaultYet /\ PlayerBack
    \/ NoFaultYet /\ DetailsBack
    \/ NoFaultYet /\ LogoutClick
    \/ NoFaultYet /\ CloseWindow
    \/ NoFaultYet /\ ReadyRead
    \/ NoFaultYet /\ DownloadProgress
    \/ NoFaultYet /\ Finished
    \/ NoFaultYet /\ ErrorOccurred
    \/ NoFaultYet /\ DismissStreamError
    \/ CleanupRaises

\* the settings are the ones load_settings defaults to: pre-buffering on,
\* a positive size
InitFault == Init /\ use_buffer /\ buffer_size_mb = MaxBufferMB

SpecFault == InitFault /\ [][NextFault]_vars

\* ------------------------------------------------------------ type check
TypeOK ==
    /\ is_cleaning_up \in BOOLEAN
    /\ playback_started \in BOOLEAN
    /\ network_reply \in 0 .. MaxSessions
    /\ view \in {"welcome", "browser", "details", "player"}
    /\ dialog \in {"none", "stream_error"}
    /\ buffer_obj \in 0 .. 2 /\ device_obj \in 0 .. 2
    /\ Len(replies) <= MaxSessions
    /\ bw.issued \in 0 .. MaxRequests
    /\ Len(bw.requests) <= MaxInFlight
    /\ bw.poster_grid \subseteq 1 .. MaxRequests

\* ================================================================ claims
\* reply t has been created and neither completed nor been aborted
InFlight(t) == replies[t].state \in {"inflight", "errored"}

\* the reply of the current session
Reply == replies[network_reply]

\* this step is a data-arrival event: append_to_buffer appended a chunk
DataArrival ==
    /\ download_buffer # NoBuffer /\ download_buffer' # NoBuffer
    /\ Len(download_buffer') = Len(download_buffer) + 1

\* this step is the terminal completion event of the current session's reply
Completion ==
    /\ network_reply # None
    /\ InFlight(network_reply)
    /\ replies'[network_reply].state = "finished"

\* this step is a play_video call that issued the GET of a new session
NewSession == Len(replies') = Len(replies) + 1

\* this step tore the current session down (the transfer handle was dropped)
TornDown == network_reply' # network_reply

\* the session is in PreBuffer mode: started with use_buffer, which is still
\* the setting that append_to_buffer reads
PreBufferMode ==
    /\ network_reply # None /\ Reply.conn = "prebuffer" /\ use_buffer

\* C1: in PreBuffer mode with a buffer target T > 0, after every data-arrival
\* event playback has started exactly if the accumulated size is >= T (so it
\* starts at the first arrival that reaches T, not earlier, not later), it
\* has started at most once in the session, and playback_started goes back
\* to false only in a step that tears the session down.
C1_ThresholdTrigger ==
    [][ /\ (DataArrival /\ PreBufferMode /\ buffer_target > 0) =>
             /\ playback_started'
                  <=> (Size(download_buffer') >= buffer_target)
             /\ sess'.starts = IF playback_started' THEN 1 ELSE 0
        /\ (playback_started /\ ~playback_started') => TornDown ]_vars

\* C1 witness: playback started at the second chunk, the first one having
\* left the buffer under the target
C1_Witness ==
    /\ playback_started /\ network_reply # None /\ use_buffer
    /\ Reply.conn = "prebuffer" /\ Reply.state = "inflight"
    /\ buffer_target > 0
    /\ Len(download_buffer) = 2
    /\ download_buffer[1] > 0 /\ download_buffer[1] < buffer_target
    /\ Size(download_buffer) >= buffer_target

\* C2: in a session started in PreBuffer mode, when the transfer completes
\* normally with N received bytes, 0 < N < T, and playback has not started,
\* the completion event starts playback on the buffer of these N bytes.
C2_CompletionFallback ==
    [][ ( /\ Completion
          /\ Reply.state = "inflight" /\ Reply.conn = "prebuffer"
          /\ ~playback_started
          /\ Size(download_buffer) > 0
          /\ Size(download_buffer) < buffer_target ) =>
             /\ playback_started'
             /\ download_buffer' = download_buffer
             /\ player_buffer_device' = network_reply
             /\ sink' = [source |-> network_reply, playing |-> TRUE]
             /\ network_reply' = network_reply /\ ~is_cleaning_up' ]_vars

\* C2 witness: playing a completed transfer that stayed under the target
C2_Witness ==
    /\ playback_started /\ network_reply # None /\ dialog = "none"
    /\ Reply.conn = "prebuffer" /\ Reply.state = "finished"
    /\ Size(download_buffer) > 0 /\ Size(download_buffer) < buffer_target
    /\ sink.playing /\ sink.source = network_reply

\* C3: in FullDownload mode (use_buffer off) playback starts in no step but
\* the terminal completion event of the session's transfer, whatever the
\* buffer size setting and whatever data or progress events arrive.
C3_FullDownloadWaits ==
    [][ (~use_buffer /\ ~playback_started /\ playback_started') =>
             Completion ]_vars

\* C3 witness: FullDownload session playing after completion, data received
C3_Witness ==
    /\ playback_started /\ ~use_buffer /\ network_reply # None
    /\ Reply.conn = "full" /\ Reply.state = "finished"
    /\ Len(download_buffer) >= 2 /\ Size(download_buffer) > 0

C5_StaleEventsDropped ==
    [][ (NewSession /\ network_reply # None /\ InFlight(network_reply)) =>
             /\ download_buffer' = << >>
             /\ ~playback_started'
             /\ network_reply' = Len(replies')
             /\ replies'[network_reply'].state = "inflight"
             /\ ~is_cleaning_up'
             /\ view' = view ]_vars

\* C6: a handler that aborts an in-flight transfer through cleanup leaves no
\* stream-error dialog on the screen.
C6_CancellationSilent == ev.aborted => dialog = "none"

\* C6 witness: a session that was playing with its transfer in flight has
\* been aborted
C6_Witness ==
    /\ ev.aborted /\ ev.cleanup = "ran" /\ sess.stops = 1
    /\ \E t \in 1 .. Len(replies) : replies[t].state = "aborted"

C8_SingleSession ==
    [][ /\ \A t \in 1 .. Len(replies') :
             (replies'[t].state \in {"inflight", "errored"})
                => t = network_reply'
        /\ NewSession =>
             /\ \A t \in 1 .. Len(replies) :
                  replies'[t].state \in {"aborted", "finished"}
             /\ download_buffer' = << >> ]_vars

\* C8 witness: a second session started while the first was in flight
C8_Witness ==
    /\ Len(replies) = 2
    /\ replies[1].state = "aborted" /\ replies[2].state = "inflight"
    /\ network_reply = 2

PreconditionErrors == {"no_video", "no_url", "no_cookie"}

\* C9: a play_video call for an item without video file, without stream URL
\* or with an empty cookie set reports an error and leaves no transfer;
\* without a transfer playback is never started.
C9_PreconditionRefused ==
    /\ (ev.play # "none" /\ (ev.play = "no_video" \/ ~base_url \/ ~cookies))
          => /\ ev.error_dialog \in PreconditionErrors
             /\ network_reply = None
             /\ \A t \in 1 .. Len(replies) : ~InFlight(t)
    /\ network_reply = None => ~playback_started

\* C9 witness: play_video refused for lack of cookies while an earlier
\* session was in flight
C9_Witness ==
    /\ ev.error_dialog = "no_cookie" /\ ev.play = "video"
    /\ network_reply = None /\ ~playback_started

\* C10: a play_video call that reports a precondition error has issued no
\* HTTP request, not even the download of the selected subtitle.
C10_NoRequestBeforeError ==
    ev.error_dialog \in PreconditionErrors => ~ev.http_sub

\* this step delivers a transport error of the current session's transfer
TransportError ==
    /\ network_reply # None
    /\ Reply.state = "inflight"
    /\ ev'.error_code = "NetworkError"

\* C11: a transport error of the active session's transfer opens the stream
\* error dialog, which was not open (and no other step opens it, so the error
\* is reported once and a cancellation is reported never); when the dialog is
\* closed the session is torn down: no transfer handle, no buffer,
\* playback_started false.
C11_TransportErrorReported ==
    [][ /\ TransportError =>
             /\ dialog = "none" /\ dialog' = "stream_error"
             /\ ev'.error_dialog = "stream_error"
        /\ (dialog = "none" /\ dialog' = "stream_error") => TransportError
        /\ (dialog = "stream_error" /\ dialog' = "none") =>
             /\ ev'.cleanup = "ran"
             /\ network_reply' = None
             /\ download_buffer' = NoBuffer
             /\ ~playback_started'
             /\ \A t \in 1 .. Len(replies') : ~InFlight(t)' ]_vars

\* C11 witness: the error dialog of a session that was playing has been
\* closed and the session torn down
C11_Witness ==
    /\ ev.error_dialog = "stream_error" /\ dialog = "none"
    /\ ev.cleanup = "ran" /\ sess.stops = 1
    /\ network_reply = None /\ download_buffer = NoBuffer

\* every resource of a session is released
Released ==
    /\ parsed_subtitles = "none"
    /\ sink = [source |-> None, playing |-> FALSE]
    /\ network_reply = None
    /\ \A t \in 1 .. Len(replies) : ~InFlight(t)
    /\ player_buffer_device = None /\ device_obj = None
    /\ download_buffer = NoBuffer /\ buffer_obj = None
    /\ ~playback_started

\* C12: when a handler other than play_video (which goes on to set up the
\* next session) has run the release steps of cleanup_after_playback, every
\* session resource is released: subtitles cleared, sink stopped with no
\* source, transfer aborted and handle null, device closed and null, buffer
\* released, playback_started false.
C12_CleanupReleasesAll ==
    (ev.cleanup = "ran" /\ ev.play = "none") => Released

\* C13: when one of the calls made by cleanup_after_playback raises, the
\* later release steps are executed all the same (handle, device and buffer
\* dropped, playback_started false) and the caller goes on as if nothing had
\* failed (handle_logout_click shows the welcome view, logged out).
C13_CleanupBestEffort ==
    ev.cleanup = "raised" =>
        /\ network_reply = None
        /\ player_buffer_device = None
        /\ download_buffer = NoBuffer
        /\ ~playback_started
        /\ view = "welcome" /\ ~logout_enabled

\* this step is one of the ways a session ends: back from the player, back
\* from the details view, logout, the stream-error dialog being closed after
\* a transport error, the window being closed, a new play request
SessionExit ==
    \/ PlayerBack
    \/ DetailsBack
    \/ LogoutClick
    \/ DismissStreamError
    \/ CloseWindow
    \/ PlayClick

\* C14: every way a session ends calls cleanup_after_playback, which runs
\* its release steps if a transfer handle was held; afterwards no earlier
\* transfer is in flight and the buffer of the earlier session is gone
\* (play_video has put a new empty one in its place).
C14_EveryExitCleansUp ==
    [][ SessionExit =>
          /\ ev'.cleanup \in {"ran", "noop"}
          /\ network_reply # None => ev'.cleanup = "ran"
          /\ \A t \in 1 .. Len(replies) :
                replies'[t].state \in {"aborted", "finished"}
          /\ IF ev'.play = "none"
             THEN download_buffer' = NoBuffer /\ network_reply' = None
             ELSE download_buffer' = << >>
                    /\ network_reply' \notin 1 .. Len(replies) ]_vars

\* C14 witness: back from the details view to the browser ended a session
\* whose transfer was in flight with data received
C14_Witness ==
    /\ view = "browser" /\ ev.cleanup = "ran" /\ ev.aborted
    /\ ev.play = "none" /\ ~closed /\ logout_enabled
    /\ sess.releases = 1 /\ download_buffer = NoBuffer

\* C15: a data-arrival event of a PreBuffer session that is playing appends
\* to the object the sink reads from: the QBuffer handed to the media player
\* wraps the very QByteArray that download_buffer refers to and that grows;
\* the event starts nothing again and leaves the sink as it is.
C15_LiveBuffer ==
    [][ (DataArrival /\ playback_started /\ network_reply # None
           /\ Reply.conn = "prebuffer") =>
          /\ buffer_obj' = buffer_obj /\ buffer_obj # None
          /\ device_obj' = buffer_obj'
          /\ player_buffer_device' = player_buffer_device
          /\ sink' = sink /\ sink.source = player_buffer_device
          /\ sink.playing
          /\ playback_started' /\ sess'.starts = sess.starts ]_vars

\* C15 witness: more data has arrived after playback started at the target
C15_Witness ==
    /\ playback_started /\ network_reply # None
    /\ Reply.conn = "prebuffer" /\ Reply.state = "inflight"
    /\ buffer_target > 0 /\ Len(download_buffer) = 2
    /\ download_buffer[1] >= buffer_target /\ download_buffer[2] > 0
    /\ ev.delivered > 0
    /\ device_obj = buffer_obj /\ sink.source = player_buffer_device

\* the session goes on over this step: same transfer handle before and after
SessionContinues == network_reply # None /\ network_reply' = network_reply

\* C16: a readyRead slot of a session appends the bytes delivered to the end
\* of the buffer (so the buffer is the concatenation of the chunks in
\* delivery order), and as long as the session goes on the buffer keeps what
\* it held: its size never decreases.
C16_AppendOnly ==
    [][ /\ (ev'.delivered # NoBytes /\ network_reply # None) =>
             /\ download_buffer # NoBuffer
             /\ download_buffer' = Append(download_buffer, ev'.delivered)
             /\ buffer_obj' = buffer_obj
        /\ SessionContinues =>
             /\ download_buffer # NoBuffer /\ download_buffer' # NoBuffer
             /\ Len(download_buffer') >= Len(download_buffer)
             /\ SubSeq(download_buffer', 1, Len(download_buffer))
                   = download_buffer
             /\ Size(download_buffer') >= Size(download_buffer) ]_vars

\* C16 witness: two chunks of different sizes were delivered, the buffer
\* holds them in that order
C16_Witness ==
    /\ network_reply # None /\ Reply.state = "inflight"
    /\ download_buffer = <<HalfMB, BytesPerMB>>
    /\ ev.delivered = BytesPerMB

\* C17: in PreBuffer mode with a buffer target <= 0 (buffer_size_mb 0 or
\* negative), after every data-arrival event playback has started exactly if
\* the buffer holds at least one byte, it has started once, and no step
\* starts playback on a buffer without a byte.
C17_StartOnFirstByte ==
    [][ /\ (DataArrival /\ PreBufferMode /\ buffer_target <= 0) =>
             /\ playback_started' <=> (Size(download_buffer') > 0)
             /\ sess'.starts = IF playback_started' THEN 1 ELSE 0
        /\ (PreBufferMode /\ buffer_target <= 0
               /\ ~playback_started /\ playback_started') =>
             /\ download_buffer' # NoBuffer
             /\ Size(download_buffer') > 0 ]_vars

\* C17 witness: negative target; the first readyRead delivered nothing, the
\* second delivered bytes and started playback
C17_Witness ==
    /\ playback_started /\ network_reply # None /\ use_buffer
    /\ Reply.conn = "prebuffer" /\ Reply.state = "inflight"
    /\ buffer_target < 0
    /\ download_buffer = <<0, HalfMB>>
    /\ ev.delivered = HalfMB /\ sess.starts = 1

\* C18: the finished event of a session started in FullDownload mode always
\* leaves playback started (if it had not started, the event starts it on the
\* session's buffer and shows the player), and with use_buffer off no other
\* step of such a session starts playback.
C18_CompletionStartsFullDownload ==
    [][ /\ (Completion /\ Reply.conn = "full") =>
             /\ playback_started'
             /\ ~playback_started =>
                  /\ sess'.starts = sess.starts + 1
                  /\ player_buffer_device' = network_reply
                  /\ device_obj' = buffer_obj
                  /\ sink' = [source |-> network_reply, playing |-> TRUE]
                  /\ view' = "player"
        /\ (network_reply # None /\ Reply.conn = "full" /\ ~use_buffer
               /\ ~playback_started /\ playback_started') =>
             Completion ]_vars

\* C18 witness: a FullDownload transfer that delivered no byte has finished
\* and playback has started
C18_Witness ==
    /\ playback_started /\ network_reply # None
    /\ Reply.conn = "full" /\ Reply.state = "finished"
    /\ download_buffer # NoBuffer /\ Size(download_buffer) = 0
    /\ sink.playing /\ view = "player"

\* C19: when a transfer finishes with no byte received and playback not
\* started, playback stays not started and the sink is given no source, in
\* either mode.
C19_EmptyTransferNeverPlays ==
    [][ (Completion /\ ~playback_started
           /\ download_buffer # NoBuffer /\ Size(download_buffer) = 0) =>
          /\ ~playback_started'
          /\ player_buffer_device' = None
          /\ sink' = sink ]_vars

\* C20: when a handler ends with playback_started false after the session
\* was playing, at its beginning or at some point inside it, the release
\* steps of cleanup_after_playback have been executed for that session: the
\* sink is stopped with no source, the buffer device is closed and dropped.
C20_PlayingLeftByCleanup ==
    [][ ((playback_started \/ ev'.started) /\ ~playback_started') =>
          /\ ev'.cleanup = "ran"
          /\ sink' = [source |-> None, playing |-> FALSE]
          /\ player_buffer_device' = None /\ device_obj' = None ]_vars

\* C21: the finished and errorOccurred callbacks that abort() causes are
\* ignored: a handler that aborted a transfer in flight has not started
\* playback, has left the sink without source, shows no dialog, and has run
\* the release steps once.
C21_AbortCallbacksIgnored ==
    [][ ev'.aborted =>
          /\ ~ev'.started
          /\ sink' = [source |-> None, playing |-> FALSE]
          /\ dialog' = "none"
          /\ ev'.cleanup = "ran"
          /\ ev'.play = "none" => sess'.aborts = 1 /\ sess'.releases = 1
          /\ ~playback_started' ]_vars

\* background workers queued or running in the thread pool
Workers ==
    login_workers + config_workers + details_workers
      + sub_workers.cur + sub_workers.stale + Len(bw.requests)

\* C22: the step that accepts the close event has called
\* cleanup_after_playback (its release steps have run if a transfer handle
\* was held) and emptied the thread pool: in the closed state no transfer is
\* in flight and no background worker is queued or running.
C22_CloseReleasesAll ==
    [][ (~closed /\ closed') =>
          /\ ev'.cleanup \in {"ran", "noop"}
          /\ network_reply # None => ev'.cleanup = "ran"
          /\ network_reply' = None
          /\ \A t \in 1 .. Len(replies') : ~InFlight(t)'
          /\ Workers' = 0 ]_vars

\* C22 witness: the window was closed while a transfer was in flight
C22_Witness ==
    /\ closed /\ ev.cleanup = "ran" /\ ev.aborted
    /\ Workers = 0 /\ network_reply = None

\* C23: a background task that ends has reported its outcome through its
\* result signal, whatever the server answered; its run() has not raised.
C23_NoFaultEscapesWorker ==
    ev.worker \in {"none", "reported"}

\* C24: between handlers a held transfer handle implies that is_cleaning_up
\* is false, so a cleanup call that returned at its guard was made when no
\* transfer was in flight; is_cleaning_up goes back to false only in
\* play_video.
C24_HandleImpliesNotCleaning ==
    [][ /\ network_reply' # None => ~is_cleaning_up'
        /\ ev'.cleanup = "noop" =>
             /\ network_reply = None
             /\ \A t \in 1 .. Len(replies) : ~InFlight(t)
        /\ (is_cleaning_up /\ ~is_cleaning_up') => ev'.play # "none" ]_vars

\* C24 witness: a cleanup call returned at its guard after an earlier call
\* had aborted the transfer
C24_Witness ==
    /\ is_cleaning_up /\ ev.cleanup = "noop" /\ network_reply = None
    /\ \E t \in 1 .. Len(replies) : replies[t].state = "aborted"

\* C25: after every handler, playback_started implies that the download
\* buffer exists and that the buffer device handed to the sink exists and
\* wraps it; start_playback is not called without a buffer; and a handler
\* that has switched the view to the player leaves a live session buffer.
C25_StartedImpliesBuffer ==
    [][ /\ playback_started' =>
             /\ download_buffer' # NoBuffer
             /\ player_buffer_device' # None
             /\ device_obj' = buffer_obj' /\ buffer_obj' # None
        /\ ev'.started => download_buffer # NoBuffer
        /\ (view # "player" /\ view' = "player") =>
             download_buffer' # NoBuffer ]_vars

\* C26: the cues the player holds are never those of a subtitle download
\* started by an earlier play request than the last one, and no cues are
\* installed while no session exists.
C26_SubtitlesOfCurrentSession ==
    /\ parsed_subtitles # "stale"
    /\ parsed_subtitles = "cur" => download_buffer # NoBuffer

\* C27: while logged out (the Logout action is disabled: before the first
\* successful login and from a logout to the next successful login) the
\* visible view is the welcome view, and a result that arrives while logged
\* out starts no request.
C27_LoggedOutShowsWelcome ==
    [][ ~logout_enabled' =>
          /\ view' = "welcome"
          /\ details_workers' <= details_workers
          /\ config_workers' <= config_workers ]_vars

\* C28: Login and Logout are never both enabled; Settings is enabled only
\* while logged out with no login request in flight; and once a login attempt
\* has ended (none is in flight any more) exactly one of Login and Logout is
\* enabled, as long as the window is open.
C28_MenuActionsConsistent ==
    /\ ~(login_enabled /\ logout_enabled)
    /\ settings_enabled => (~logout_enabled /\ login_workers = 0)
    /\ (logins > 0 /\ login_workers = 0 /\ ~closed) =>
         (login_enabled # logout_enabled)

\* the listing request issued last, while it is in flight (workers are
\* appended to the list in the order they are started)
Issued(b) == b.requests[Len(b.requests)]

\* C29: every page request the catalog browser issues has page number >= 1
\* (offset >= 0) and, when the total is known (total_items > 0), page number
\* at most the number of pages.
C29_PageRequestsInRange ==
    [][ (bw'.issued > bw.issued /\ Issued(bw').kind = "page") =>
          /\ Issued(bw').page_num >= 1
          /\ Offset(Issued(bw').page_num) >= 0
          /\ bw'.total_items > 0 =>
               Issued(bw').page_num <= total_pages(bw'.total_items) ]_vars

\* the numbers of the listing requests in flight
Pending(b) == {b.requests[i].id : i \in 1 .. Len(b.requests)}

\* this step delivers the answer to a request that, when the answer arrives,
\* is not the one issued last
StaleAnswer ==
    /\ ~closed'
    /\ \E id \in Pending(bw) \ Pending(bw') : id # bw.issued

\* C30: once every outstanding listing request has returned, the grid shows
\* only items of the request issued last; and the answer to a request that is
\* not the one issued last changes neither the grid nor the pagination state.
C30_GridShowsLatestListing ==
    [][ /\ bw'.requests = << >> => bw'.poster_grid \subseteq {bw'.issued}
        /\ StaleAnswer =>
             /\ bw'.poster_grid = bw.poster_grid
             /\ bw'.total_items = bw.total_items
             /\ bw'.current_page = bw.current_page
             /\ bw'.pagination_bar = bw.pagination_bar
             /\ bw'.prev_page_button = bw.prev_page_button
             /\ bw'.next_page_button = bw.next_page_button ]_vars

====
